---- MODULE Spec2Model ----
(***************************************************************************)
(* Selenium Practice Lab: the Express backend (server/routes.ts,           *)
(* server/storage.ts, shared/schema.ts) and the infinite-scroll controller *)
(* of the React page (client/src/pages/home.tsx).                          *)
(*                                                                         *)
(* Text is a sequence of one-character strings, so that formatting a       *)
(* number into a URL and parsing it back with parseInt are computed.       *)
(* A JavaScript number is a record: [k |-> "nan"], [k |-> "int", v |-> n]  *)
(* for |n| < 2^31, or [k |-> "big", neg, overUint32] for larger magnitudes *)
(* (overUint32: the magnitude exceeds 2^32 - 1).                           *)
(***************************************************************************)
EXTENDS Integers, Sequences, FiniteSets, TLC

\* ------------------------------------------------------------------ bounds
MaxLen == 2        \* longest enumerated query-parameter / credential text
MaxFetches == 4    \* fetches the scroll controller may start in one run
MaxIgnored == 2    \* triggers counted while a fetch is outstanding
MaxArg == 2        \* largest page / limit of a direct getItems call

\* ------------------------------------------------------- program constants
PAGE_LIMIT == 10          \* home.tsx:60  `limit=10`
DEFAULT_PAGE == 1         \* routes.ts:11 `|| 1`
DEFAULT_LIMIT == 10       \* routes.ts:12 `|| 10`
SCROLL_THRESHOLD == 100   \* home.tsx:75  `clientHeight + 100`

\* ------------------------------------------------------------ text helpers
RECURSIVE SeqsUpTo(_, _)
SeqsUpTo(A, n) ==
  IF n = 0 THEN {<<>>}
  ELSE LET S == SeqsUpTo(A, n - 1)
       IN  S \cup {Append(s, c) : s \in {t \in S : Len(t) = n - 1}, c \in A}

\* the element of a singleton set; `x \in {e}` binds x to the value of e, so
\* that e is evaluated once
Only(S) == CHOOSE x \in S : TRUE

Contains(hay, needle) ==
  \E i \in 0..(Len(hay) - Len(needle)) :
     SubSeq(hay, i + 1, i + Len(needle)) = needle

\* ---------------------------------------------------------------- numbers
NaN == [k |-> "nan"]
Num(n) == [k |-> "int", v |-> n]

DigitChars == <<"0", "1", "2", "3", "4", "5", "6", "7", "8", "9",
                "a", "b", "c", "d", "e", "f">>

DigitVal(c) == (CHOOSE i \in 1..16 : DigitChars[i] = c) - 1

IsDigit(c, radix) == \E i \in 1..radix : DigitChars[i] = c

WhiteSpace == {" "}

\* Number.prototype.toString for a non-negative integer below 2^31
RECURSIVE NumToStr(_)
NumToStr(n) ==
  IF n < 0 THEN <<"-">> \o NumToStr(0 - n)
  ELSE IF n < 10 THEN <<DigitChars[n + 1]>>
  ELSE NumToStr(n \div 10) \o <<DigitChars[(n % 10) + 1]>>

RECURSIVE TrimStart(_)
TrimStart(s) ==
  IF s # <<>> /\ Head(s) \in WhiteSpace THEN TrimStart(Tail(s)) ELSE s

RECURSIVE DigitPrefix(_, _)
DigitPrefix(s, radix) ==
  IF s # <<>> /\ IsDigit(Head(s), radix)
  THEN <<Head(s)>> \o DigitPrefix(Tail(s), radix)
  ELSE <<>>

\* magnitude of a digit string as hi * 2^16 + lo, hi saturating at 2^16
\* (hi >= 2^15: the value is 2^31 or more; hi = 2^16: it is 2^32 or more)
RECURSIVE Magnitude(_, _, _)
Magnitude(z, radix, acc) ==
  IF z = <<>> THEN acc
  ELSE LET lo == acc.lo * radix + DigitVal(Head(z))
           hi == acc.hi * radix + (lo \div 65536)
       IN  Magnitude(Tail(z), radix,
                     [hi |-> IF hi >= 65536 THEN 65536 ELSE hi,
                      lo |-> lo % 65536])

\* the value of the digit string Z in the given radix, NaN if Z is empty
ToInteger(Z, radix, neg) ==
  IF Z = <<>> THEN NaN
  ELSE Only({ IF m.hi < 32768
              THEN Num((IF neg THEN -1 ELSE 1) * (m.hi * 65536 + m.lo))
              ELSE [k |-> "big", neg |-> neg, overUint32 |-> m.hi >= 65536] :
              m \in {Magnitude(Z, radix, [hi |-> 0, lo |-> 0])} })

\* parseInt(string) with no radix argument: leading white space is skipped,
\* then a sign, then "0x"/"0X" selects radix 16, then the longest prefix of
\* digits is converted; what follows the digits is ignored
ParseInt(s) ==
  Only({ LET neg == S0 # <<>> /\ Head(S0) = "-"
             S1  == IF S0 # <<>> /\ Head(S0) \in {"+", "-"} THEN Tail(S0) ELSE S0
             hex == Len(S1) >= 2 /\ S1[1] = "0" /\ S1[2] \in {"x", "X"}
         IN  IF hex
             THEN Only({ ToInteger(Z, 16, neg) :
                         Z \in {DigitPrefix(SubSeq(S1, 3, Len(S1)), 16)} })
             ELSE Only({ ToInteger(Z, 10, neg) : Z \in {DigitPrefix(S1, 10)} }) :
         S0 \in {TrimStart(s)} })

\* a query parameter is absent (undefined) or a text; String(undefined)
\* is "undefined", which has no digit prefix
Undefined == [t |-> "undefined"]
Str(s) == [t |-> "string", v |-> s]

ParseIntArg(q) == IF q.t = "string" THEN ParseInt(q.v) ELSE NaN

\* JavaScript truthiness of a number: NaN and 0 are falsy
Truthy(n) == n.k = "big" \/ (n.k = "int" /\ n.v # 0)

OrDefault(n, d) == IF Truthy(n) THEN n ELSE Num(d)

\* ------------------------------------------------- server/storage.ts items
Max(a, b) == IF a >= b THEN a ELSE b

ItemTitle(id) == <<"Item #">> \o NumToStr(id)

ItemDescription(id) ==
  <<"This is a dynamically loaded item for infinite scroll testing. Item number ">>
    \o NumToStr(id) \o <<".">>

MakeItem(id) ==
  [id |-> id, title |-> ItemTitle(id), description |-> ItemDescription(id)]

\* variant: ids counted from zero within the page
GetItemsZeroBased(store, page, limit) ==
  IF limit.k = "big" /\ ~limit.neg
  THEN [threw |-> TRUE,
        error |-> IF limit.overUint32 THEN "RangeError" ELSE "OutOfMemory"]
  ELSE LET len     == IF limit.k = "int" THEN Max(limit.v, 0) ELSE 0
           startId == (page.v - 1) * limit.v
       IN  [threw |-> FALSE,
            items |-> [i \in 1..len |-> MakeItem(startId + (i - 1))]]

\* variant: ids continue after the number of stored users
GetItemsAfterUsers(store, page, limit) ==
  IF limit.k = "big" /\ ~limit.neg
  THEN [threw |-> TRUE,
        error |-> IF limit.overUint32 THEN "RangeError" ELSE "OutOfMemory"]
  ELSE LET len     == IF limit.k = "int" THEN Max(limit.v, 0) ELSE 0
           startId == (page.v - 1) * limit.v + 1 + Cardinality(store)
       IN  [threw |-> FALSE,
            items |-> [i \in 1..len |-> MakeItem(startId + (i - 1))]]

\* Array.from({ length: limit }, f): ToLength clamps NaN and negatives to 0;
\* a length above 2^32 - 1 makes the Array constructor throw a RangeError.
\* A length in 2^31 .. 2^32 - 1 is a valid length whose allocation is not
\* modelled; no input of the model produces one.
\* MemStorage.getItems(page, limit), a method of the store object `store`
GetItems(store, page, limit) ==
  IF limit.k = "big" /\ ~limit.neg
  THEN [threw |-> TRUE,
        error |-> IF limit.overUint32 THEN "RangeError" ELSE "OutOfMemory"]
  ELSE LET len     == IF limit.k = "int" THEN Max(limit.v, 0) ELSE 0
           startId == (page.v - 1) * limit.v + 1
       IN  [threw |-> FALSE,
            items |-> [i \in 1..len |-> MakeItem(startId + (i - 1))]]

\* ------------------------------------------------- shared/schema.ts login
\* a JSON value of a request body field
JNumber(n) == [t |-> "number", v |-> n]
JNull == [t |-> "null"]

\* variant: z.string() without the minimum length
AnyString(x) == x.t = "string"

\* z.string().min(1, ...)
NonEmptyString(x) == x.t = "string" /\ Len(x.v) >= 1

\* variant: the password field is z.string() with no minimum length
LoginRequestSchemaLoosePassword(body) ==
  IF body.t = "object"
     /\ NonEmptyString(body.username) /\ body.password.t = "string"
  THEN [success |-> TRUE,
        data |-> [username |-> body.username.v, password |-> body.password.v]]
  ELSE [success |-> FALSE]

\* loginRequestSchema.safeParse(body); body is [t |-> "undefined"] when the
\* request carries no JSON object, else [t |-> "object", username, password]
LoginRequestSchema(body) ==
  IF body.t = "object"
     /\ NonEmptyString(body.username) /\ NonEmptyString(body.password)
  THEN [success |-> TRUE,
        data |-> [username |-> body.username.v, password |-> body.password.v]]
  ELSE [success |-> FALSE]

\* ---------------------------------------------------- server/routes.ts
\* app.get("/api/items"): `call` is the storage call the handler makes, `res`
\* the response; a throw in the handler reaches Express's error handling,
\* which answers 500 with a non-JSON body
ItemsHandler(store, query) ==
  Only({ Only({ [call |-> [page |-> page, limit |-> limit, result |-> r],
                 res  |-> IF r.threw
                          THEN [status |-> 500, json |-> FALSE]
                          ELSE [status |-> 200, json |-> TRUE,
                                body |-> [items |-> r.items, page |-> page,
                                          hasMore |-> TRUE]]] :
                r \in {GetItems(store, page, limit)} }) :
         page  \in {OrDefault(ParseIntArg(query.page), DEFAULT_PAGE)},
         limit \in {OrDefault(ParseIntArg(query.limit), DEFAULT_LIMIT)} })

\* `username && password` on two strings: both non-empty
BothTruthy(username, password) == username # <<>> /\ password # <<>>

\* app.post("/api/login")
LoginHandler(body) ==
  LET result == LoginRequestSchema(body)
  IN  IF ~result.success
      THEN [status |-> 400, json |-> TRUE,
            body |-> [success |-> FALSE,
                      message |-> "Invalid credentials format"]]
      ELSE IF BothTruthy(result.data.username, result.data.password)
      THEN [status |-> 200, json |-> TRUE,
            body |-> [success |-> TRUE,
                      message |-> <<"Login successful! Welcome, ">>
                                    \o result.data.username,
                      user |-> [username |-> result.data.username]]]
      ELSE [status |-> 401, json |-> TRUE,
            body |-> [success |-> FALSE, message |-> "Invalid credentials"]]

\* ------------------------------------------------------------------ state
VARIABLES
  isLoadingRef,   \* home.tsx:38 re-entrancy guard (ref)
  isLoadingMore,  \* home.tsx:35 UI-visible loading flag (state)
  pageRef,        \* home.tsx:37 page cursor (ref)
  items,          \* home.tsx:34 displayed items (state)
  calls,          \* invocations of loadMoreItems suspended at an await
  mountRuns,      \* times the mount effect (home.tsx:48-50) has run
  netCalls,       \* history: fetches started
  increments,     \* history: assignments to pageRef.current
  ignored,        \* history: loadMoreItems calls that returned at the guard
  errors,         \* history: console.error calls
  lastEvent,      \* history: the last controller step
  requested,      \* history: the page text of each fetch, in order
  outcomes,       \* history: "pending", "loaded" or "failed" per fetch
  lastScroll,     \* history: the geometry of the last scroll event
  users,          \* storage.ts:12 MemStorage.users, as a set of User records
  keptCall,       \* history: an earlier direct getItems call, kept to compare
  storeOp,        \* history: the last direct call of a MemStorage method
  apiReq,         \* the last HTTP request handled for an outside client
  apiRes,         \* its response
  apiCall,        \* history: the getItems call made for it, if any
  isLoading,        \* home.tsx:28 dynamic elements are being loaded
  dynamicLoaded,    \* home.tsx:27 dynamic elements are shown
  timers,           \* pending callbacks of setTimeout (home.tsx:83)
  hoverMenuVisible, \* home.tsx:32 the hover menu is shown
  selectedMenuItem, \* home.tsx:33 the selected menu item, Null if none
  pointerOver,      \* the pointer is inside the hover region (home.tsx:282)
  widgetEvent       \* history: the last step of these two widgets

clientVars == <<isLoadingRef, isLoadingMore, pageRef, items, calls, mountRuns,
                netCalls, increments, ignored, errors, lastEvent,
                requested, outcomes, lastScroll>>
widgetVars == <<isLoading, dynamicLoaded, timers, hoverMenuVisible,
                selectedMenuItem, pointerOver, widgetEvent>>
storeVars == <<users, keptCall, storeOp>>
apiVars == <<apiReq, apiRes, apiCall>>
vars == <<isLoadingRef, isLoadingMore, pageRef, items, calls, mountRuns,
          netCalls, increments, ignored, errors, lastEvent,
          requested, outcomes, lastScroll,
          users, keptCall, storeOp, apiReq, apiRes, apiCall,
          isLoading, dynamicLoaded, timers, hoverMenuVisible,
          selectedMenuItem, pointerOver, widgetEvent>>

None == [kind |-> "none"]
Null == "null"

Init ==
  /\ isLoadingRef = FALSE
  /\ isLoadingMore = FALSE
  /\ pageRef = 1
  /\ items = <<>>
  /\ calls = {}
  /\ mountRuns = 0
  /\ netCalls = 0
  /\ increments = 0
  /\ ignored = 0
  /\ errors = 0
  /\ lastEvent = None
  /\ requested = <<>>
  /\ outcomes = <<>>
  /\ lastScroll = None
  /\ users = {}
  /\ keptCall = None
  /\ storeOp = None
  /\ apiReq = None
  /\ apiRes = None
  /\ apiCall = None
  /\ isLoading = FALSE
  /\ dynamicLoaded = FALSE
  /\ timers = 0
  /\ hoverMenuVisible = FALSE
  /\ selectedMenuItem = Null
  /\ pointerOver = FALSE
  /\ widgetEvent = None

\* ------------------------------------- client/src/pages/home.tsx controller
\* variant: the request asks for the page after the cursor
ItemsQueryNextPage(currentPage) ==
  [page |-> Str(NumToStr(currentPage + 1)), limit |-> Str(NumToStr(PAGE_LIMIT))]

\* the request of fetch(`/api/items?page=${currentPage}&limit=10`)
ItemsQuery(currentPage) ==
  [page |-> Str(NumToStr(currentPage)), limit |-> Str(NumToStr(PAGE_LIMIT))]

\* variant: loadMoreItems without the guard of home.tsx:53
LoadMoreItemsUnguarded(trigger) ==
  /\ netCalls < MaxFetches
  /\ isLoadingRef' = TRUE
  /\ isLoadingMore' = TRUE
  /\ calls' = calls \cup {[id |-> netCalls + 1, currentPage |-> pageRef,
                           pc |-> "awaitFetch", query |-> ItemsQuery(pageRef)]}
  /\ netCalls' = netCalls + 1
  /\ requested' = Append(requested, ItemsQuery(pageRef).page.v)
  /\ outcomes' = Append(outcomes, "pending")
  /\ lastEvent' = [kind |-> "started", trigger |-> trigger,
                   id |-> netCalls + 1, page |-> pageRef]
  /\ UNCHANGED <<pageRef, items, increments, ignored, errors>>

\* loadMoreItems up to its first await (home.tsx:53-60)
LoadMoreItems(trigger) ==
  IF isLoadingRef
  THEN /\ ignored < MaxIgnored
       /\ ignored' = ignored + 1
       /\ lastEvent' = [kind |-> "ignored", trigger |-> trigger, n |-> ignored + 1]
       /\ UNCHANGED <<isLoadingRef, isLoadingMore, pageRef, items, calls,
                      netCalls, increments, errors, requested, outcomes>>
  ELSE /\ netCalls < MaxFetches
       /\ isLoadingRef' = TRUE
       /\ isLoadingMore' = TRUE
       /\ calls' = calls \cup {[id |-> netCalls + 1, currentPage |-> pageRef,
                                pc |-> "awaitFetch",
                                query |-> ItemsQuery(pageRef)]}
       /\ netCalls' = netCalls + 1
       /\ requested' = Append(requested, ItemsQuery(pageRef).page.v)
       /\ outcomes' = Append(outcomes, "pending")
       /\ lastEvent' = [kind |-> "started", trigger |-> trigger,
                        id |-> netCalls + 1, page |-> pageRef]
       /\ UNCHANGED <<pageRef, items, increments, ignored, errors>>

\* useEffect(() => { loadMoreItems(); }, []): runs after the first render, and
\* a second time straight after under React's development double invocation
Mount ==
  /\ \/ mountRuns = 0
     \/ mountRuns = 1 /\ lastEvent.kind = "started" /\ lastEvent.trigger = "mount"
  /\ mountRuns' = mountRuns + 1
  /\ LoadMoreItems("mount")
  /\ UNCHANGED <<lastScroll, storeVars, apiVars, widgetVars>>

ScrollTops == {0, 579, 580, 581, 680}
ScrollHeights == {1000}
ClientHeights == {320}

\* variant: strictly less than the threshold
NearBottomStrict(scrollTop, scrollHeight, clientHeight) ==
  scrollHeight - scrollTop < clientHeight + SCROLL_THRESHOLD

NearBottom(scrollTop, scrollHeight, clientHeight) ==
  scrollHeight - scrollTop <= clientHeight + SCROLL_THRESHOLD

\* handleScroll (home.tsx:73-78)
HandleScroll(scrollTop, scrollHeight, clientHeight) ==
  /\ mountRuns >= 1
  /\ IF NearBottom(scrollTop, scrollHeight, clientHeight) /\ ~isLoadingRef
     THEN LoadMoreItems("scroll")
     ELSE /\ lastEvent' = [kind |-> "scrolled", scrollTop |-> scrollTop,
                           near |-> NearBottom(scrollTop, scrollHeight,
                                               clientHeight),
                           loading |-> isLoadingRef]
          /\ UNCHANGED <<isLoadingRef, isLoadingMore, pageRef, items, calls,
                         netCalls, increments, ignored, errors, requested,
                         outcomes>>
  /\ lastScroll' = [scrollTop |-> scrollTop, scrollHeight |-> scrollHeight,
                    clientHeight |-> clientHeight]
  /\ UNCHANGED <<mountRuns, storeVars, apiVars, widgetVars>>

\* the Load More button (home.tsx:401-406): onClick={loadMoreItems},
\* disabled={isLoadingMore}; a disabled button delivers no click
ClickLoadMore ==
  /\ mountRuns >= 1
  /\ ~isLoadingMore
  /\ LoadMoreItems("click")
  /\ UNCHANGED <<mountRuns, lastScroll, storeVars, apiVars, widgetVars>>

\* finally { isLoadingRef.current = false; setIsLoadingMore(false); }
Finally(c) ==
  /\ isLoadingRef' = FALSE
  /\ isLoadingMore' = FALSE
  /\ calls' = calls \ {c}

\* variant: the guard is released on the success path only
CatchKeepsGuard(c, kind) ==
  /\ errors' = errors + 1
  /\ lastEvent' = [kind |-> kind, id |-> c.id, page |-> c.currentPage]
  /\ outcomes' = [outcomes EXCEPT ![c.id] = "failed"]
  /\ requested' = requested
  /\ isLoadingRef' = isLoadingRef
  /\ isLoadingMore' = FALSE
  /\ calls' = calls \ {c}
  /\ UNCHANGED <<pageRef, items, netCalls, increments, ignored>>

\* variant: the cursor advances on failure as well
CatchAdvances(c, kind) ==
  /\ errors' = errors + 1
  /\ lastEvent' = [kind |-> kind, id |-> c.id, page |-> c.currentPage]
  /\ outcomes' = [outcomes EXCEPT ![c.id] = "failed"]
  /\ requested' = requested
  /\ pageRef' = c.currentPage + 1
  /\ Finally(c)
  /\ UNCHANGED <<items, netCalls, increments, ignored>>

\* variant: a failure sends the cursor back to the first page
CatchResets(c, kind) ==
  /\ errors' = errors + 1
  /\ lastEvent' = [kind |-> kind, id |-> c.id, page |-> c.currentPage]
  /\ outcomes' = [outcomes EXCEPT ![c.id] = "failed"]
  /\ requested' = requested
  /\ pageRef' = 1
  /\ Finally(c)
  /\ UNCHANGED <<items, netCalls, increments, ignored>>

\* variant: a failure clears the guard but leaves the spinner on
CatchKeepsSpinner(c, kind) ==
  /\ errors' = errors + 1
  /\ lastEvent' = [kind |-> kind, id |-> c.id, page |-> c.currentPage]
  /\ outcomes' = [outcomes EXCEPT ![c.id] = "failed"]
  /\ requested' = requested
  /\ isLoadingRef' = FALSE
  /\ isLoadingMore' = isLoadingMore
  /\ calls' = calls \ {c}
  /\ UNCHANGED <<pageRef, items, netCalls, increments, ignored>>

\* catch (error) { console.error(...) } then finally
Catch(c, kind) ==
  /\ errors' = errors + 1
  /\ lastEvent' = [kind |-> kind, id |-> c.id, page |-> c.currentPage]
  /\ outcomes' = [outcomes EXCEPT ![c.id] = "failed"]
  /\ requested' = requested
  /\ Finally(c)
  /\ UNCHANGED <<pageRef, items, netCalls, increments, ignored>>

\* `await fetch(...)` resolves: the server has answered the request
FetchResolve(c) ==
  /\ c \in calls /\ c.pc = "awaitFetch"
  /\ calls' = (calls \ {c}) \cup
              {[id |-> c.id, currentPage |-> c.currentPage, pc |-> "awaitJson",
                query |-> c.query,
                response |-> ItemsHandler(users, c.query).res]}
  /\ lastEvent' = [kind |-> "responded", id |-> c.id, page |-> c.currentPage]
  /\ UNCHANGED <<isLoadingRef, isLoadingMore, pageRef, items, mountRuns,
                 netCalls, increments, ignored, errors, requested, outcomes,
                 lastScroll, storeVars, apiVars, widgetVars>>

\* `await fetch(...)` rejects (network failure)
FetchReject(c) ==
  /\ c \in calls /\ c.pc = "awaitFetch"
  /\ Catch(c, "fetchFailed")
  /\ UNCHANGED <<mountRuns, lastScroll, storeVars, apiVars, widgetVars>>

\* variant: the new items are put in front of the displayed ones
JsonResolvePrepends(c) ==
  /\ c \in calls /\ c.pc = "awaitJson" /\ c.response.json
  /\ items' = c.response.body.items \o items
  /\ pageRef' = c.currentPage + 1
  /\ increments' = increments + 1
  /\ lastEvent' = [kind |-> "loaded", id |-> c.id, page |-> c.currentPage]
  /\ outcomes' = [outcomes EXCEPT ![c.id] = "loaded"]
  /\ requested' = requested
  /\ Finally(c)
  /\ UNCHANGED <<mountRuns, netCalls, ignored, errors, lastScroll, storeVars, apiVars, widgetVars>>

\* variant: the items are appended but the cursor is left where it was
JsonResolveKeepsPage(c) ==
  /\ c \in calls /\ c.pc = "awaitJson" /\ c.response.json
  /\ items' = items \o c.response.body.items
  /\ pageRef' = pageRef
  /\ increments' = increments
  /\ lastEvent' = [kind |-> "loaded", id |-> c.id, page |-> c.currentPage]
  /\ outcomes' = [outcomes EXCEPT ![c.id] = "loaded"]
  /\ requested' = requested
  /\ Finally(c)
  /\ UNCHANGED <<mountRuns, netCalls, ignored, errors, lastScroll, storeVars,
                 apiVars, widgetVars>>

\* `await response.json()` resolves; home.tsx:63-64 then finally
JsonResolve(c) ==
  /\ c \in calls /\ c.pc = "awaitJson" /\ c.response.json
  /\ items' = items \o c.response.body.items
  /\ pageRef' = c.currentPage + 1
  /\ increments' = increments + 1
  /\ lastEvent' = [kind |-> "loaded", id |-> c.id, page |-> c.currentPage]
  /\ outcomes' = [outcomes EXCEPT ![c.id] = "loaded"]
  /\ requested' = requested
  /\ Finally(c)
  /\ UNCHANGED <<mountRuns, netCalls, ignored, errors, lastScroll, storeVars, apiVars, widgetVars>>

\* `await response.json()` rejects (the body cannot be read or parsed)
JsonReject(c) ==
  /\ c \in calls /\ c.pc = "awaitJson"
  /\ Catch(c, "jsonFailed")
  /\ UNCHANGED <<mountRuns, lastScroll, storeVars, apiVars, widgetVars>>

Scroll == \E t \in ScrollTops, h \in ScrollHeights, ch \in ClientHeights :
             HandleScroll(t, h, ch)
FetchResolved == \E c \in calls : FetchResolve(c)
FetchRejected == \E c \in calls : FetchReject(c)
JsonResolved == \E c \in calls : JsonResolve(c)
JsonRejected == \E c \in calls : JsonReject(c)

\* ------------------------------------------- HTTP requests from outside
QueryChars == {"0", "1", "-", "a", " "}
QueryTexts == SeqsUpTo(QueryChars, MaxLen)

PageInputs ==
  {Undefined} \cup {Str(t) : t \in QueryTexts \cup {<<"3">>, <<"0", "x", "2">>}}

LimitInputs ==
  {Undefined} \cup
  {Str(t) : t \in QueryTexts \cup
                  {<<"5">>, <<"1", "0">>, <<"+", "2">>, <<"0", "x", "a">>,
                   <<"4", "2", "9", "4", "9", "6", "7", "2", "9", "6">>}}

\* GET /api/items?page=..&limit=..; requests are handled one at a time
ApiGetItems(pageQ, limitQ) ==
  LET h == ItemsHandler(users, [page |-> pageQ, limit |-> limitQ])
  IN  /\ apiReq = None
      /\ apiReq' = [kind |-> "items", page |-> pageQ, limit |-> limitQ]
      /\ apiRes' = h.res
      /\ apiCall' = [kind |-> "getItems", page |-> h.call.page,
                     limit |-> h.call.limit, result |-> h.call.result]
      /\ UNCHANGED <<clientVars, storeVars, widgetVars>>

CredentialChars == {"a", "b"}
FieldValues ==
  {Undefined, JNull, JNumber(5)} \cup
  {Str(t) : t \in SeqsUpTo(CredentialChars, MaxLen)}
LoginBodies ==
  {Undefined} \cup
  {[t |-> "object", username |-> u, password |-> pw] :
      u \in FieldValues, pw \in FieldValues}

\* variant: a successful login stores the user in the map
ApiLoginStoresUser(body) ==
  /\ apiReq = None
  /\ apiReq' = [kind |-> "login", body |-> body]
  /\ apiRes' = LoginHandler(body)
  /\ apiCall' = None
  /\ users' = IF LoginHandler(body).status = 200
              THEN users \cup {[id |-> "u1", username |-> body.username.v,
                                password |-> body.password.v]}
              ELSE users
  /\ UNCHANGED <<clientVars, keptCall, storeOp, widgetVars>>

\* POST /api/login
ApiLogin(body) ==
  /\ apiReq = None
  /\ apiReq' = [kind |-> "login", body |-> body]
  /\ apiRes' = LoginHandler(body)
  /\ apiCall' = None
  /\ UNCHANGED <<clientVars, storeVars, widgetVars>>

\* the response has been sent; the server waits for the next request
ApiDone ==
  /\ apiReq # None
  /\ apiReq' = None
  /\ apiRes' = None
  /\ apiCall' = None
  /\ UNCHANGED <<clientVars, storeVars, widgetVars>>

GetItemsRequest == \E pq \in PageInputs, lq \in LimitInputs : ApiGetItems(pq, lq)
LoginRequest == \E b \in LoginBodies : ApiLogin(b)

ApiNext ==
  \/ GetItemsRequest
  \/ LoginRequest
  \/ ApiDone

ApiSpec == Init /\ [][ApiNext]_vars

\* ------------------------------------- direct calls of MemStorage methods
UUIDs == {"u1", "u2"}
InsertUsers == {[username |-> <<n>>, password |-> <<"p">>] : n \in CredentialChars}
StoreArgs == 1..MaxArg

\* getUser(id)
StoreGetUser(id) ==
  /\ storeOp' = [kind |-> "getUser", id |-> id,
                 result |-> {u \in users : u.id = id}]
  /\ UNCHANGED <<users, keptCall, clientVars, apiVars, widgetVars>>

\* getUserByUsername(username)
StoreGetUserByUsername(username) ==
  /\ storeOp' = [kind |-> "getUserByUsername", username |-> username,
                 result |-> {u \in users : u.username = username}]
  /\ UNCHANGED <<users, keptCall, clientVars, apiVars, widgetVars>>

\* createUser(insertUser): randomUUID() yields an id not in the map
StoreCreateUser(insertUser, id) ==
  /\ id \notin {u.id : u \in users}
  /\ users' = users \cup {[id |-> id, username |-> insertUser.username,
                           password |-> insertUser.password]}
  /\ storeOp' = [kind |-> "createUser", id |-> id]
  /\ UNCHANGED <<keptCall, clientVars, apiVars, widgetVars>>

\* getItems(page, limit); the observer may keep the call for later comparison
StoreGetItems(page, limit, keep) ==
  LET r == GetItems(users, Num(page), Num(limit))
  IN  /\ storeOp' = [kind |-> "getItems", page |-> page, limit |-> limit,
                     result |-> r]
      /\ keptCall' = IF keep
                     THEN [kind |-> "getItems", page |-> page, limit |-> limit,
                           result |-> r, nUsers |-> Cardinality(users)]
                     ELSE keptCall
      /\ UNCHANGED <<users, clientVars, apiVars, widgetVars>>

GetUserCall == \E id \in UUIDs : StoreGetUser(id)
GetUserByUsernameCall == \E n \in CredentialChars : StoreGetUserByUsername(<<n>>)
CreateUserCall == \E iu \in InsertUsers, id \in UUIDs : StoreCreateUser(iu, id)
GetItemsCall == \E pg \in StoreArgs, lm \in StoreArgs, keep \in BOOLEAN :
                   StoreGetItems(pg, lm, keep)

StoreNext ==
  \/ GetUserCall
  \/ GetUserByUsernameCall
  \/ CreateUserCall
  \/ GetItemsCall

StoreSpec == Init /\ [][StoreNext]_vars

\* ------------------------- dynamic element loading and the hover menu
\* handleLoadDynamicElements (home.tsx:80-87)
HandleLoadDynamicElements ==
  /\ isLoading' = TRUE
  /\ dynamicLoaded' = FALSE
  /\ timers' = timers + 1
  /\ widgetEvent' = [kind |-> "loadClicked"]
  /\ UNCHANGED <<hoverMenuVisible, selectedMenuItem, pointerOver,
                 clientVars, storeVars, apiVars>>

\* variant: the button stays enabled while loading
ClickLoadElementsEnabled ==
  /\ timers < 2
  /\ HandleLoadDynamicElements

\* a click on the load button (home.tsx:150-152): disabled={isLoading}, and
\* a disabled button delivers no click to its handler
ClickLoadElements ==
  IF isLoading
  THEN /\ widgetEvent' = [kind |-> "loadClickDropped"]
       /\ UNCHANGED <<isLoading, dynamicLoaded, timers, hoverMenuVisible,
                      selectedMenuItem, pointerOver,
                      clientVars, storeVars, apiVars>>
  ELSE HandleLoadDynamicElements

\* the callback of setTimeout(..., 2000) (home.tsx:83-86); both updates are
\* applied in one render
TimerFires ==
  /\ timers > 0
  /\ dynamicLoaded' = TRUE
  /\ isLoading' = FALSE
  /\ timers' = timers - 1
  /\ widgetEvent' = [kind |-> "timerFired"]
  /\ UNCHANGED <<hoverMenuVisible, selectedMenuItem, pointerOver,
                 clientVars, storeVars, apiVars>>

MenuItems == {"Profile Settings", "Dashboard", "Reports", "Logout"}

\* onMouseEnter of the hover region (home.tsx:284)
MouseEnter ==
  /\ ~pointerOver
  /\ pointerOver' = TRUE
  /\ hoverMenuVisible' = TRUE
  /\ widgetEvent' = [kind |-> "mouseEnter"]
  /\ UNCHANGED <<isLoading, dynamicLoaded, timers, selectedMenuItem,
                 clientVars, storeVars, apiVars>>

\* variant: leaving the region also forgets the selection
MouseLeaveClears ==
  /\ pointerOver
  /\ pointerOver' = FALSE
  /\ hoverMenuVisible' = FALSE
  /\ selectedMenuItem' = Null
  /\ widgetEvent' = [kind |-> "mouseLeave"]
  /\ UNCHANGED <<isLoading, dynamicLoaded, timers,
                 clientVars, storeVars, apiVars>>

\* onMouseLeave of the hover region (home.tsx:285)
MouseLeave ==
  /\ pointerOver
  /\ pointerOver' = FALSE
  /\ hoverMenuVisible' = FALSE
  /\ widgetEvent' = [kind |-> "mouseLeave"]
  /\ UNCHANGED <<isLoading, dynamicLoaded, timers, selectedMenuItem,
                 clientVars, storeVars, apiVars>>

\* a click on a menu item (home.tsx:306-308) runs handleMenuItemClick
\* (home.tsx:103-106); the pointer clicks an item of the visible menu, a
\* scripted click (element.click()) reaches the item in any state
HandleMenuItemClick(item, scripted) ==
  /\ scripted \/ (hoverMenuVisible /\ pointerOver)
  /\ selectedMenuItem' = item
  /\ hoverMenuVisible' = FALSE
  /\ widgetEvent' = [kind |-> "menuItemClicked", item |-> item,
                     scripted |-> scripted]
  /\ UNCHANGED <<isLoading, dynamicLoaded, timers, pointerOver,
                 clientVars, storeVars, apiVars>>

MenuItemClicked == \E item \in MenuItems, scripted \in BOOLEAN :
                      HandleMenuItemClick(item, scripted)

WidgetNext ==
  \/ ClickLoadElements
  \/ TimerFires
  \/ MouseEnter
  \/ MouseLeave
  \/ MenuItemClicked

WidgetSpec == Init /\ [][WidgetNext]_vars

\* a timer set with setTimeout fires
FairWidgetSpec == WidgetSpec /\ WF_vars(TimerFires)

\* ------------------------------------------------- the scroll controller
Next ==
  \/ Mount
  \/ Scroll
  \/ ClickLoadMore
  \/ FetchResolved
  \/ FetchRejected
  \/ JsonResolved
  \/ JsonRejected

Spec == Init /\ [][Next]_vars

\* every started fetch settles: each await of an outstanding invocation
\* eventually resolves or rejects
FairSpec ==
  /\ Spec
  /\ WF_vars(FetchResolved \/ FetchRejected)
  /\ WF_vars(JsonResolved \/ JsonRejected)

\* ================================================================ claims
Failed == {"fetchFailed", "jsonFailed"}

\* C1: at most one fetch is outstanding; while one is outstanding no trigger
\* starts another request; every started fetch is outstanding, failed, or
\* has advanced the cursor exactly once.
C1_SingleFlight ==
  [][ /\ Cardinality(calls') <= 1
      /\ (calls # {} => netCalls' = netCalls /\ requested' = requested)
      /\ increments' + errors' + Cardinality(calls') = netCalls'
      /\ pageRef' = 1 + increments' ]_vars

\* two triggers during one fetch (the second returned at the guard), one
\* request, one cursor increment
C1_Witness ==
  ignored >= 1 /\ netCalls = 1 /\ increments = 1 /\ pageRef = 2 /\ calls = {}

\* C2: the guard is set whenever an invocation is suspended in its fetch, and
\* given that every fetch settles, a set guard is always cleared again.
C2_GuardReleased ==
  /\ [](calls # {} => isLoadingRef)
  /\ (isLoadingRef ~> ~isLoadingRef)

\* a trigger is accepted after an earlier fetch has failed
C2_Witness ==
  lastEvent.kind = "started" /\ errors >= 1 /\ isLoadingRef

\* C3: a successful fetch appends the response's items after the displayed
\* ones and sets the cursor to the page it requested plus one.
C3_SuccessAppends ==
  [][ lastEvent'.kind = "loaded" =>
        \E c \in calls :
           /\ c.id = lastEvent'.id
           /\ Len(items') = Len(items) + Len(c.response.body.items)
           /\ SubSeq(items', 1, Len(items)) = items
           /\ SubSeq(items', Len(items) + 1, Len(items')) = c.response.body.items
           /\ pageRef' = ParseInt(requested[c.id]).v + 1 ]_vars

\* the second page has been appended below the first
C3_Witness ==
  lastEvent.kind = "loaded" /\ Len(items) = 2 * PAGE_LIMIT /\ pageRef = 3

\* C4: a failed fetch leaves the cursor and the displayed items as they were
\* and clears the loading flag; the fetch after a failed one asks for the
\* same page.
C4_FailureKeepsCursor ==
  [][ /\ lastEvent'.kind \in Failed =>
            pageRef' = pageRef /\ items' = items /\ ~isLoadingMore'
      /\ \A i \in 1..(Len(requested') - 1) :
            outcomes'[i] = "failed" => requested'[i + 1] = requested'[i] ]_vars

\* a page other than the first asked for again after its fetch failed
C4_Witness ==
  \E i \in 2..(Len(requested) - 1) : outcomes[i] = "failed"

\* C5: the cursor starts at 1 and changes only by +1, on a successful fetch.
C5_CursorMonotone ==
  /\ pageRef = 1
  /\ [][ \/ pageRef' = pageRef
         \/ pageRef' = pageRef + 1 /\ lastEvent'.kind = "loaded" ]_vars

\* successes and a failure have happened and the cursor stands at 3
C5_Witness ==
  pageRef = 3 /\ errors >= 1 /\ lastEvent.kind \in Failed

\* ids of a page: the item at offset i (from 0) has id (page-1)*limit + i + 1
PageIds(result, page, limit) ==
  /\ ~result.threw
  /\ Len(result.items) = limit
  /\ result.items[1].id = (page - 1) * limit + 1
  /\ \A i \in 1..(limit - 1) : result.items[i + 1].id = result.items[i].id + 1

IsPositiveInteger(n) == (n.k = "int" /\ n.v >= 1) \/ (n.k = "big" /\ ~n.neg)

C7_GetItemsPure ==
  (storeOp.kind = "getItems" /\ keptCall.kind = "getItems"
     /\ keptCall.page = storeOp.page /\ keptCall.limit = storeOp.limit) =>
    keptCall.result = storeOp.result

\* getItems repeated after users were created since the kept call
C7_Witness ==
  /\ storeOp.kind = "getItems" /\ keptCall.kind = "getItems"
  /\ keptCall.page = storeOp.page /\ keptCall.limit = storeOp.limit
  /\ keptCall.nUsers < Cardinality(users)

\* a query parameter that is missing, has no leading number, or is <= 0
Unusable(q) ==
  \/ q.t # "string"
  \/ ParseInt(q.v).k = "nan"
  \/ ParseInt(q.v).k = "int" /\ ParseInt(q.v).v <= 0
  \/ ParseInt(q.v).k = "big" /\ ParseInt(q.v).neg

\* C8 as stated: a missing, non-numeric or non-positive page is replaced by 1
\* and such a limit by 10, and the request never gets an error response.
C8_DefaultsNeverErrors ==
  apiReq.kind = "items" =>
    /\ Unusable(apiReq.page) => apiCall.page = Num(DEFAULT_PAGE)
    /\ Unusable(apiReq.limit) => apiCall.limit = Num(DEFAULT_LIMIT)
    /\ apiRes.status < 400

\* C9 as stated: every response is 200 with the effective page, the items of
\* getItems(effective page, effective limit) and hasMore = true; page=3 and
\* limit=5 give ids 11..15.
C9_ItemsResponse ==
  apiReq.kind = "items" =>
    /\ apiRes.status = 200
    /\ apiRes.body.page = apiCall.page
    /\ apiRes.body.items = apiCall.result.items
    /\ apiRes.body.hasMore
    /\ (apiReq.page = Str(<<"3">>) /\ apiReq.limit = Str(<<"5">>)) =>
          [i \in 1..5 |-> apiRes.body.items[i].id] = <<11, 12, 13, 14, 15>>

\* C10: login answers 200 with the username echoed exactly when username and
\* password are both non-empty strings, and 400 "Invalid credentials format"
\* for every other body.
C10_Login ==
  apiReq.kind = "login" =>
    LET b  == apiReq.body
        ok == /\ b.t = "object"
              /\ b.username.t = "string" /\ b.username.v # <<>>
              /\ b.password.t = "string" /\ b.password.v # <<>>
    IN  IF ok
        THEN /\ apiRes.status = 200
             /\ apiRes.body.success
             /\ Contains(apiRes.body.message, b.username.v)
             /\ apiRes.body.user.username = b.username.v
        ELSE /\ apiRes.status = 400
             /\ ~apiRes.body.success
             /\ apiRes.body.message = "Invalid credentials format"

\* an empty username with a password has been refused
C10_Witness ==
  /\ apiReq.kind = "login" /\ apiReq.body.t = "object"
  /\ apiReq.body.username = Str(<<>>) /\ apiReq.body.password = Str(<<"b">>)
  /\ apiRes.status = 400

\* C11: every body that passes loginRequestSchema also passes the
\* `username && password` check, so a login is answered 200 or 400, never 401.
C11_No401 ==
  apiReq.kind = "login" =>
    /\ apiRes.status \in {200, 400}
    /\ LoginRequestSchema(apiReq.body).success => apiRes.status = 200

\* a body has passed the schema and then the truthiness check
C11_Witness ==
  /\ apiReq.kind = "login" /\ apiReq.body.t = "object"
  /\ apiReq.body.username = Str(<<"a">>) /\ apiReq.body.password = Str(<<"b">>)
  /\ apiRes.status = 200

\* C12: a scroll event starts a fetch exactly when scrollHeight - scrollTop <=
\* clientHeight + 100 and no fetch is outstanding; the mount effect and the
\* Load More button start one exactly when no fetch is outstanding.
C12_Triggers ==
  [][ LET within == lastScroll'.scrollHeight - lastScroll'.scrollTop
                      <= lastScroll'.clientHeight + 100
          idle   == calls = {} /\ ~isLoadingRef
      IN  /\ (lastEvent'.kind = "started" /\ lastEvent'.trigger = "scroll") =>
                within /\ idle
          /\ lastEvent'.kind = "scrolled" => ~(within /\ idle)
          /\ (lastEvent'.kind = "started"
                /\ lastEvent'.trigger \in {"mount", "click"}) => idle
          /\ lastEvent'.kind = "ignored" => ~idle ]_vars

\* a scroll exactly 100px above the bottom has started a fetch
C12_Witness ==
  /\ lastEvent.kind = "started" /\ lastEvent.trigger = "scroll"
  /\ lastScroll.scrollHeight - lastScroll.scrollTop = lastScroll.clientHeight + 100

\* a user map other than the empty one
SomeUsers == {[id |-> "u1", username |-> <<"a">>, password |-> <<"p">>]}

\* C13: no request changes the user map, and the response to a request is the
\* same whatever the user map holds: it depends on the request alone.
C13_Stateless ==
  [][ /\ users' = users
      /\ apiReq'.kind = "items" =>
           apiRes' = ItemsHandler(SomeUsers, [page |-> apiReq'.page,
                                              limit |-> apiReq'.limit]).res
      /\ apiReq'.kind = "login" => apiRes' = LoginHandler(apiReq'.body) ]_vars

\* a login has succeeded and the user map is still empty
C13_Witness ==
  /\ apiReq.kind = "login" /\ apiRes.status = 200 /\ users = {}
  /\ apiReq.body.username = Str(<<"b">>)

\* C14: the displayed ids are 1, 2, ..., 10 * (cursor - 1), in this order.
C14_ContiguousIds ==
  /\ Len(items) = 10 * (pageRef - 1)
  /\ \A i \in 1..Len(items) : items[i].id = i

\* two pages are displayed after a run with a failed fetch and a trigger
\* that found the guard set
C14_Witness ==
  pageRef = 3 /\ Len(items) = 20 /\ errors >= 1 /\ ignored >= 1

\* C15: isLoadingMore and the guard agree and both are set exactly while a
\* fetch is outstanding, so the Load More button is disabled exactly then,
\* and after a failed fetch it is enabled again.
C15_FlagsAgree ==
  /\ isLoadingMore <=> isLoadingRef
  /\ isLoadingMore <=> calls # {}
  /\ lastEvent.kind \in Failed => ~isLoadingMore

\* the body of a response could not be read and the button is enabled
C15_Witness ==
  lastEvent.kind = "jsonFailed" /\ ~isLoadingMore /\ calls = {}

\* C16: a request carries limit 10 and the cursor of the moment its trigger
\* was accepted; the first request is for page 1 and only the first mount run
\* starts a request; a page is requested again only after all its earlier
\* requests failed.
C16_Requests ==
  [][ /\ lastEvent'.kind = "started" =>
           \E c \in calls' :
              /\ c.id = lastEvent'.id /\ c.id = Len(requested')
              /\ ParseInt(c.query.limit.v) = Num(10)
              /\ ParseInt(c.query.page.v) = Num(pageRef)
              /\ requested'[c.id] = c.query.page.v
      /\ requested' # <<>> => ParseInt(requested'[1]) = Num(1)
      /\ (lastEvent'.kind = "started" /\ lastEvent'.trigger = "mount") =>
           mountRuns = 0 /\ netCalls' = 1
      /\ \A i, j \in 1..Len(requested') :
           (i < j /\ requested'[i] = requested'[j]) => outcomes'[i] = "failed"
    ]_vars

\* the mount effect ran twice and started one request; page 1 was requested
\* again after its first request failed
C16_Witness ==
  /\ mountRuns = 2 /\ Len(requested) >= 3
  /\ requested[1] = requested[2] /\ requested[2] # requested[3]

\* C17: a click on the load button sets isLoading and hides the dynamic
\* elements; at most one timer is pending, one exactly while isLoading; the
\* timer shows the elements and clears isLoading; isLoading and dynamicLoaded
\* are never both true; after a click the elements are eventually shown.
C17_DynamicLoading ==
  /\ [](timers <= 1 /\ (isLoading <=> timers = 1)
          /\ ~(isLoading /\ dynamicLoaded))
  /\ [][ /\ widgetEvent'.kind = "loadClicked" => isLoading' /\ ~dynamicLoaded'
         /\ widgetEvent'.kind = "timerFired" => dynamicLoaded' /\ ~isLoading' ]_vars
  /\ [][widgetEvent'.kind = "loadClickDropped" =>
         UNCHANGED <<isLoading, dynamicLoaded, timers>>]_vars
  /\ (isLoading ~> (dynamicLoaded /\ ~isLoading))

\* the timer of a click has fired and the elements are shown
C17_Witness ==
  widgetEvent.kind = "timerFired" /\ dynamicLoaded /\ ~isLoading /\ timers = 0

\* C18: the menu is visible only while the pointer is over the hover region:
\* entering shows it and leaving hides it; a click on an item selects the
\* item and hides the menu; a selection is replaced but never cleared.
C18_HoverMenu ==
  /\ [](hoverMenuVisible => pointerOver)
  /\ [][ /\ widgetEvent'.kind = "mouseEnter" => hoverMenuVisible'
         /\ widgetEvent'.kind = "mouseLeave" => ~hoverMenuVisible'
         /\ widgetEvent'.kind = "menuItemClicked" =>
              selectedMenuItem' = widgetEvent'.item /\ ~hoverMenuVisible'
         /\ selectedMenuItem # Null => selectedMenuItem' # Null ]_vars

\* the pointer has left the region after an item was selected
C18_Witness ==
  /\ widgetEvent.kind = "mouseLeave" /\ ~hoverMenuVisible
  /\ selectedMenuItem = "Reports"

====
